---- MODULE Spec2Model ----
(***************************************************************************)
(* svh::scope (src/svh/scope.hpp): a tree of scopes keyed by type.         *)
(*                                                                         *)
(* A node is named by the sequence of type keys that leads to it from the  *)
(* root scope (the chain of std::unordered_map slots that own it).  The    *)
(* raw `parent` pointer of a node is a field of its own, because the code  *)
(* writes it independently of who owns the node.                           *)
(***************************************************************************)
EXTENDS Integers, Sequences, FiniteSets, TLC

\* ----------------------------------------------------------------- bounds
MaxNodes == 3
MaxCount == 2

\* ------------------------------------------------------------------ types
\* The types a caller passes as T: a class type, its const-qualified form,
\* and a second class type.
Types == {"T", "constT", "U"}

\* std::decay_t<T>: strips cv-qualifiers (and references).
decay_t(X) == IF X = "constT" THEN "T" ELSE X

\* std::type_index{ typeid(std::decay_t<T>) }
get_type_key(X) == decay_t(X)

Keys == {get_type_key(X) : X \in Types}

\* Payload of type_settings<T>, opaque to the tree: the value a default
\* construction gives it, or a value the caller has written.
DefaultVal == "default"
Values == {DefaultVal, "custom"}
Counts == 0..MaxCount

\* ------------------------------------------------------------------ nodes
Root == <<>>
\* scope* parent = nullptr
Null == <<"nullptr">>

Owner(p) == SubSeq(p, 1, Len(p) - 1)
IsPrefix(a, p) == Len(a) <= Len(p) /\ SubSeq(p, 1, Len(a)) = a
\* The entries nested (at any depth) below node c.
Descendants(t, c) == {p \in DOMAIN t : Len(p) > Len(c) /\ IsPrefix(c, p)}
\* The `children` map of node n.
children(t, n) == {p \in DOMAIN t : Len(p) = Len(n) + 1 /\ IsPrefix(n, p)}
Slot(n, X) == n \o <<get_type_key(X)>>

is_root(t, n) == t[n].parent = Null
has_parent(t, n) == t[n].parent # Null

\* ---------------------------------------------------------------- results
Ref(p, how) == [kind |-> "ref", node |-> p, via |-> how]
Err(k) == [kind |-> k, node |-> Root, via |-> "none"]
Ret(t, r) == [tree |-> t, res |-> r]

VARIABLES tree, last, autoInsert
vars == <<tree, last, autoInsert>>

\* ------------------------------------------------------------- operations
\* type_settings<T>{} : a fresh entry, no parent, no children.
type_settings(X) == [parent |-> Null, dyn |-> X, val |-> DefaultVal]

RECURSIVE find(_, _, _)
find(t, n, X) ==
    LET c == Slot(n, X) IN
    IF c \in DOMAIN t
    THEN IF t[c].dyn = X THEN Ref(c, "found") ELSE Err("TypeMismatch")
    ELSE IF has_parent(t, n) THEN find(t, t[n].parent, X)
    ELSE Err("nullptr")

\* A scope object not (yet) held by any node: its own fields and the entries
\* nested in it, named relative to it.
Obj(e, nest) == [entry |-> e, nested |-> nest]
NoNested == [r \in {} |-> type_settings("U")]
Rel(c, p) == SubSeq(p, Len(c) + 1, Len(p))

\* children.emplace(key, std::move(child)): no effect when the key is present.
emplace(t, c, obj) ==
    IF c \in DOMAIN t THEN t
    ELSE [p \in DOMAIN t \cup {c} \cup {c \o r : r \in DOMAIN obj.nested} |->
            IF p \in DOMAIN t THEN t[p]
            ELSE IF p = c THEN obj.entry
            ELSE obj.nested[Rel(c, p)]]

emplace_new(t, n, X) ==
    LET c == Slot(n, X)
        child == Obj([type_settings(X) EXCEPT !.parent = n], NoNested)
    IN  Ret(emplace(t, c, child), Ref(c, "created"))

\* type_settings<T>(*found): the implicit copy constructor copies parent, the
\* children map (the shared_ptr of every nested entry) and the payload.
copy_construct(t, src) ==
    Obj(t[src], [r \in {Rel(src, q) : q \in Descendants(t, src)} |-> t[src \o r]])

\* A variant of children_clear: the copy keeps the donor's children.
children_kept(obj) == obj

\* child->children.clear()
children_clear(obj) == Obj(obj.entry, NoNested)

\* A variant of assign: the entry assigned to is erased with what it holds.
assign_dropping(t, c, obj) ==
    [p \in DOMAIN t \ (Descendants(t, c) \cup {c}) |-> t[p]]

\* *found = type_settings<T>{}: the implicit assignment assigns parent, children
\* and the payload of the entry at c; the object keeps its dynamic type.
assign(t, c, obj) ==
    LET keep == DOMAIN t \ Descendants(t, c) IN
    [p \in keep \cup {c \o r : r \in DOMAIN obj.nested} |->
        IF p = c THEN [obj.entry EXCEPT !.dyn = t[c].dyn]
        ELSE IF p \in keep THEN t[p]
        ELSE obj.nested[Rel(c, p)]]

\* A variant of _push: an entry already held is reset instead of reused.
_push_resetting(t, n, X) ==
    LET c == Slot(n, X) IN
    IF c \in DOMAIN t
    THEN IF t[c].dyn = X
         THEN Ret(assign(t, c, Obj(type_settings(X), NoNested)), Ref(c, "reused"))
         ELSE Ret(t, Err("TypeMismatch"))
    ELSE emplace_new(t, n, X)

_push(t, n, X) ==
    LET c == Slot(n, X) IN
    IF c \in DOMAIN t
    THEN IF t[c].dyn = X THEN Ret(t, Ref(c, "reused"))
         ELSE Ret(t, Err("TypeMismatch"))
    ELSE IF has_parent(t, n)
    THEN LET found == find(t, n, X) IN
         IF found.kind = "TypeMismatch" THEN Ret(t, found)
         ELSE IF found.kind = "ref"
         THEN LET copy  == copy_construct(t, found.node)
                  owned == Obj([copy.entry EXCEPT !.parent = n], copy.nested)
                  child == children_clear(owned)
              IN  Ret(emplace(t, c, child), Ref(c, "copied"))
         ELSE emplace_new(t, n, X)
    ELSE emplace_new(t, n, X)

push(t, n, X) == _push(t, n, X)

push_default(t, n, X) ==
    LET c == Slot(n, X) IN
    IF c \in DOMAIN t
    THEN IF t[c].dyn = X
         THEN Ret(assign(t, c, Obj(type_settings(X), NoNested)), Ref(c, "reset"))
         ELSE Ret(t, Err("TypeMismatch"))
    ELSE emplace_new(t, n, X)

\* parent->pop(...) through a null parent: undefined behaviour.  A build
\* faults on the load of this->parent, or reads a null or a stray pointer
\* there and throws or returns a reference to no scope.
NullDeref == {Err("Segfault"), Err("NoParent"), Err("StrayRef")}

\* The set of outcomes of pop(count) on node n.
RECURSIVE pop(_, _, _)
pop(t, n, count) ==
    IF ~has_parent(t, n) /\ count = 1 THEN {Err("NoParent")}
    ELSE IF count = 1 THEN {Ref(t[n].parent, "parent")}
    ELSE IF has_parent(t, n) THEN pop(t, t[n].parent, count - 1)
    ELSE NullDeref

_get(t, n, X) ==
    LET found == find(t, n, X) IN
    IF found.kind = "TypeMismatch" THEN Ret(t, found)
    ELSE IF found.kind = "ref" THEN Ret(t, found)
    ELSE IF is_root(t, n) /\ autoInsert THEN emplace_new(t, n, X)
    ELSE Ret(t, Err("NotFound"))

get(t, n, X) == _get(t, n, X)

\* A variant of _get_const: the const lookup inserts at the root like the mutable one.
_get_const_inserting(t, n, X) ==
    LET found == find(t, n, X) IN
    IF found.kind = "TypeMismatch" THEN Ret(t, found)
    ELSE IF found.kind = "ref" THEN Ret(t, found)
    ELSE IF is_root(t, n) THEN emplace_new(t, n, X)
    ELSE Ret(t, Err("NotFound"))

_get_const(t, n, X) ==
    LET found == find(t, n, X) IN
    IF found.kind = "TypeMismatch" THEN Ret(t, found)
    ELSE IF found.kind = "ref" THEN Ret(t, found)
    ELSE Ret(t, Err("NotFound"))

get_const(t, n, X) == _get_const(t, n, X)

\* A variant of push_chain: the second type is pushed on the node the call was
\* made on, not on the entry the first push returned.
push_chain_flat(t, n, X, Y) ==
    LET first == _push(t, n, X) IN
    IF first.res.kind # "ref" THEN first
    ELSE push(first.tree, n, Y)

\* push<T, U>(): auto& next = _push<T>(); return next.push<U>();
push_chain(t, n, X, Y) ==
    LET first == _push(t, n, X) IN
    IF first.res.kind # "ref" THEN first
    ELSE push(first.tree, first.res.node, Y)

\* get<T, U>(): auto& next = _get<T>(); return next.get<U>();
get_chain(t, n, X, Y) ==
    LET first == _get(t, n, X) IN
    IF first.res.kind # "ref" THEN first
    ELSE get(first.tree, first.res.node, Y)

\* get<T, U>() const
get_const_chain(t, n, X, Y) ==
    LET first == _get_const(t, n, X) IN
    IF first.res.kind # "ref" THEN first
    ELSE get_const(first.tree, first.res.node, Y)

\* ------------------------------------------------------------------ model
\* The model lets a call create an entry only while the tree holds fewer than
\* MaxNodes entries besides the root scope.
InBounds(t) == DOMAIN t \subseteq DOMAIN tree \/ Cardinality(DOMAIN tree) <= MaxNodes

Call(o, n, X, a, r) == [op |-> o, node |-> n, type |-> X, arg |-> a, res |-> r]

\* The caller is between two calls; `last` holds a call and its outcome until
\* the caller has taken it.
NoCall == Call("idle", Root, "scope", 0, Err("none"))
Idle == last = NoCall

\* svh::scope root; with SVH_AUTO_INSERT as the build defines it.
Init ==
    /\ tree = [p \in {Root} |-> [parent |-> Null, dyn |-> "scope", val |-> DefaultVal]]
    /\ last = NoCall
    /\ autoInsert \in BOOLEAN

Apply(o, n, X, r) ==
    /\ InBounds(r.tree)
    /\ tree' = r.tree
    /\ last' = Call(o, n, X, 0, r.res)
    /\ UNCHANGED autoInsert

\* A chained call, which may create an entry per step: the model keeps the
\* tree it leaves within MaxNodes entries.
ApplyChain(o, n, X, Y, r) ==
    /\ InBounds(r.tree)
    /\ Cardinality(DOMAIN r.tree) <= MaxNodes + 1
    /\ tree' = r.tree
    /\ last' = Call(o, n, X, Y, r.res)
    /\ UNCHANGED autoInsert

PushChain(n, X, Y) ==
    Idle /\ n \in DOMAIN tree /\ ApplyChain("push_chain", n, X, Y, push_chain(tree, n, X, Y))

GetChain(n, X, Y) ==
    Idle /\ n \in DOMAIN tree /\ ApplyChain("get_chain", n, X, Y, get_chain(tree, n, X, Y))

GetConstChain(n, X, Y) ==
    /\ Idle
    /\ n \in DOMAIN tree
    /\ ApplyChain("get_const_chain", n, X, Y, get_const_chain(tree, n, X, Y))

Push(n, X) == Idle /\ n \in DOMAIN tree /\ Apply("push", n, X, push(tree, n, X))

PushDefault(n, X) ==
    Idle /\ n \in DOMAIN tree /\ Apply("push_default", n, X, push_default(tree, n, X))

Get(n, X) == Idle /\ n \in DOMAIN tree /\ Apply("get", n, X, get(tree, n, X))

GetConst(n, X) ==
    Idle /\ n \in DOMAIN tree /\ Apply("get_const", n, X, get_const(tree, n, X))

Find(n, X) ==
    /\ Idle
    /\ n \in DOMAIN tree
    /\ last' = Call("find", n, X, 0, find(tree, n, X))
    /\ UNCHANGED <<tree, autoInsert>>

Pop(n, count) ==
    /\ Idle
    /\ n \in DOMAIN tree
    /\ \E r \in pop(tree, n, count) : last' = Call("pop", n, "scope", count, r)
    /\ UNCHANGED <<tree, autoInsert>>

\* The caller writes the payload through a reference it holds.
SetValue(n, v) ==
    /\ Idle
    /\ n \in DOMAIN tree \ {Root}
    /\ tree' = [tree EXCEPT ![n].val = v]
    /\ last' = Call("set", n, tree[n].dyn, v, Ref(n, "held"))
    /\ UNCHANGED autoInsert

\* Control is back in the caller, unless the process is gone after a fault.
Return ==
    /\ ~Idle
    /\ last.res.kind # "Segfault"
    /\ last' = NoCall
    /\ UNCHANGED <<tree, autoInsert>>

\* The calls a caller makes with a type of TS as the type argument.
Calls(TS) ==
    \/ \E n \in DOMAIN tree, X \in TS : Push(n, X)
    \/ \E n \in DOMAIN tree, X \in TS : PushDefault(n, X)
    \/ \E n \in DOMAIN tree, X \in TS : Get(n, X)
    \/ \E n \in DOMAIN tree, X \in TS : GetConst(n, X)
    \/ \E n \in DOMAIN tree, X \in TS : Find(n, X)
    \/ \E n \in DOMAIN tree, X \in TS, Y \in TS : PushChain(n, X, Y)
    \/ \E n \in DOMAIN tree, X \in TS, Y \in TS : GetChain(n, X, Y)
    \/ \E n \in DOMAIN tree, X \in TS, Y \in TS : GetConstChain(n, X, Y)
    \/ \E n \in DOMAIN tree, c \in Counts : Pop(n, c)
    \/ \E n \in DOMAIN tree, v \in Values : SetValue(n, v)
    \/ Return

Next == Calls(Types)

Spec == Init /\ [][Next]_vars

\* The callers that name only types std::decay_t leaves as they are.
PlainTypes == {X \in Types : decay_t(X) = X}

NextPlain == Calls(PlainTypes)

SpecPlain == Init /\ [][NextPlain]_vars

\* ----------------------------------------------------------------- claims
\* The notions the claims are stated in.  An "X entry" is an entry of type
\* type_settings<X>; the chain of a node is the nodes that own it.
HoldsEntry(t, n, X) == Slot(n, X) \in DOMAIN t /\ t[Slot(n, X)].dyn = X
Owners(n) == {SubSeq(n, 1, k) : k \in 0..(Len(n) - 1)}
HoldingOwners(t, n, X) == {a \in Owners(n) : HoldsEntry(t, a, X)}
NearestHolder(t, n, X) ==
    CHOOSE a \in HoldingOwners(t, n, X) : \A b \in HoldingOwners(t, n, X) : Len(b) <= Len(a)
AbsentFromChain(t, n, X) == \A a \in Owners(n) \cup {n} : ~HoldsEntry(t, a, X)
Returned(r, c) == r.kind = "ref" /\ r.node = c
\* t with one default X entry, without nested entries, added to node n.
WithDefaultEntry(t, n, X) ==
    [p \in DOMAIN t \cup {Slot(n, X)} |->
        IF p \in DOMAIN t THEN t[p] ELSE [parent |-> n, dyn |-> X, val |-> DefaultVal]]
RECURSIVE ReachesRoot(_, _, _)
ReachesRoot(t, p, fuel) ==
    IF p = Root THEN TRUE
    ELSE IF fuel = 0 \/ p \notin DOMAIN t THEN FALSE
    ELSE ReachesRoot(t, t[p].parent, fuel - 1)

\* C1: push<X>() on a node n that holds no X entry, while a node of its chain
\* does, creates an X entry at n whose value is that of the nearest such
\* ancestor's X entry; afterwards writing the value of one entry changes no
\* other entry's value.
C1_InheritanceByCopy ==
    [][ /\ (/\ last'.op = "push"
            /\ ~HoldsEntry(tree, last'.node, last'.type)
            /\ HoldingOwners(tree, last'.node, last'.type) # {})
           => LET n == last'.node
                  X == last'.type
                  c == Slot(n, X)
                  d == Slot(NearestHolder(tree, n, X), X)
              IN  /\ Returned(last'.res, c)
                  /\ HoldsEntry(tree', n, X)
                  /\ tree'[c].val = tree[d].val
        /\ last'.op = "set"
           => /\ DOMAIN tree' = DOMAIN tree
              /\ \A p \in DOMAIN tree \ {last'.node} : tree'[p].val = tree[p].val
      ]_vars

SingleEntryPerKey ==
    \A n \in DOMAIN tree, k \in Keys :
        Cardinality({c \in children(tree, n) : c[Len(c)] = k}) <= 1

\* C2: a node holds at most one entry per type key, and push<X>() on a node
\* that already holds an X entry returns that entry and changes nothing.
C2_IdempotentPush ==
    /\ []SingleEntryPerKey
    /\ [][ (last'.op = "push" /\ HoldsEntry(tree, last'.node, last'.type))
           => /\ Returned(last'.res, Slot(last'.node, last'.type))
              /\ tree' = tree
         ]_vars
C2_Witness ==
    /\ last.op = "push"
    /\ last.res.via = "reused"
    /\ tree[last.res.node].val # DefaultVal
    /\ Descendants(tree, last.res.node) # {}

\* C3: pop(count), count >= 1, on a node with d ancestors fails with NoParent
\* when count > d and otherwise returns the ancestor count levels up.
C3_PopBounds ==
    (last.op = "pop" /\ last.arg >= 1)
    => IF last.arg > Len(last.node)
       THEN last.res.kind = "NoParent"
       ELSE Returned(last.res, SubSeq(last.node, 1, Len(last.node) - last.arg))

\* C4: the parent link of every entry is the node that holds it, as set when
\* the entry was created, and the parent links lead from every node to the
\* root.
C4_ParentLinkImmutable ==
    /\ tree[Root].parent = Null
    /\ \A p \in DOMAIN tree \ {Root} :
        /\ tree[p].parent = Owner(p)
        /\ ReachesRoot(tree, p, Len(p))

\* C5: mutable get<X>() fails with NotFound only when auto-insert is disabled;
\* with auto-insert enabled, get<X>() on any node whose chain holds no X entry
\* returns a default X entry created at the root.
C5_NotFoundOnlyWithoutAutoInsert ==
    [][ last'.op = "get"
        => /\ last'.res.kind = "NotFound" => ~autoInsert
           /\ (autoInsert /\ AbsentFromChain(tree, last'.node, last'.type))
              => /\ Returned(last'.res, Slot(Root, last'.type))
                 /\ tree' = WithDefaultEntry(tree, Root, last'.type)
      ]_vars

\* C6: mutable get<X>() on a root that holds no X entry adds one default X
\* entry without nested entries to the root and returns it when auto-insert is
\* enabled, and fails with NotFound, the root unchanged, when it is disabled.
C6_AutoInsertAtRoot ==
    [][ (last'.op = "get" /\ last'.node = Root /\ ~HoldsEntry(tree, Root, last'.type))
        => IF autoInsert
           THEN /\ Returned(last'.res, Slot(Root, last'.type))
                /\ Slot(Root, last'.type) \notin DOMAIN tree
                /\ tree' = WithDefaultEntry(tree, Root, last'.type)
           ELSE /\ last'.res.kind = "NotFound"
                /\ tree' = tree
      ]_vars

\* C7: push_default<X>() on n always returns an X entry held by n with the
\* default value and no nested entries, and changes no entry outside it.
C7_PushDefaultResets ==
    [][ last'.op = "push_default"
        => LET n == last'.node
               X == last'.type
               c == Slot(n, X)
           IN  /\ Returned(last'.res, c)
               /\ HoldsEntry(tree', n, X)
               /\ tree'[c].val = DefaultVal
               /\ Descendants(tree', c) = {}
               /\ \A p \in DOMAIN tree :
                    ~IsPrefix(c, p) => (p \in DOMAIN tree' /\ tree'[p] = tree[p])
      ]_vars

\* C8: an entry that push<X>() creates by copying an ancestor's X entry has no
\* nested entries, and the copy changes nothing in the donor or elsewhere.
C8_NestedStrippedOnCopy ==
    [][ (last'.op = "push" /\ last'.res.via = "copied")
        => LET c == last'.res.node
           IN  /\ c \notin DOMAIN tree
               /\ DOMAIN tree' = DOMAIN tree \cup {c}
               /\ Descendants(tree', c) = {}
               /\ \A p \in DOMAIN tree : tree'[p] = tree[p]
      ]_vars
C8_Witness ==
    /\ last.op = "push"
    /\ last.res.via = "copied"
    /\ HoldingOwners(tree, last.node, last.type) # {}
    /\ LET c == last.res.node
           d == Slot(NearestHolder(tree, last.node, last.type), last.type)
       IN  /\ Descendants(tree, d) \ {c} # {}
           /\ Descendants(tree, c) = {}
           /\ tree[c].val = tree[d].val
           /\ tree[c].val # DefaultVal

\* C9: find<X>(), the const get<X>() and pop(count) leave the tree unchanged,
\* whatever their outcome; after find<X>() returns absent, a get<X>() without
\* auto-insert still fails with NotFound.
C9_ReadOnlyOperations ==
    [][ last'.op \in {"find", "get_const", "pop"}
        => /\ tree' = tree
           /\ (last'.op = "find" /\ last'.res.kind = "nullptr" /\ ~autoInsert)
              => get(tree', last'.node, last'.type).res.kind = "NotFound"
      ]_vars
C9_Witness ==
    /\ last.op = "find"
    /\ last.res.kind = "nullptr"
    /\ ~autoInsert
    /\ Cardinality(DOMAIN tree) > 2
    /\ last.node # Root

\* C10: two distinct types a call can name never resolve to the same key, so
\* the slot of an entry of one type is the slot of no other type.
C10_TypeKeyUnique ==
    \A p \in DOMAIN tree \ {Root} : \A Y \in Types :
        Y # tree[p].dyn => Slot(Owner(p), Y) # p

\* C11: push<X, Y>() on a node returns the node that push<X>() followed by
\* push<Y>() on its result returns, and leaves the tree those two calls leave;
\* when push<X>() throws, both throw the same error and change nothing.
C11_ChainedPushEquivalence ==
    [][ last'.op = "push_chain"
        => LET n == last'.node
               a == push(tree, n, last'.type)
           IN  IF a.res.kind = "ref"
               THEN LET b == push(a.tree, a.res.node, last'.arg)
                    IN  tree' = b.tree /\ last'.res = b.res
               ELSE tree' = tree /\ last'.res = a.res
      ]_vars

\* A chained push that went two levels down from the node it was called on.
C11_Witness ==
    /\ last.op = "push_chain"
    /\ get_type_key(last.type) # get_type_key(last.arg)
    /\ Returned(last.res, Slot(Slot(last.node, last.type), last.arg))
    /\ HoldsEntry(tree, last.node, last.type)
    /\ HoldsEntry(tree, Slot(last.node, last.type), last.arg)
    /\ Slot(last.node, last.arg) \notin DOMAIN tree

\* The nodes a lookup from n visits: n, the node that holds n, and so on up
\* to the root; and the nearest of them that holds an X entry.
LookupChain(n) == Owners(n) \cup {n}
ChainHolders(t, n, X) == {a \in LookupChain(n) : HoldsEntry(t, a, X)}
NearestInChain(t, n, X) ==
    CHOOSE a \in ChainHolders(t, n, X) : \A b \in ChainHolders(t, n, X) : Len(b) <= Len(a)

\* C12: find<X>() and get<X>() on n return the X entry of the nearest node of
\* n, owner(n), ..., root that holds one, also after push_default has reset an
\* entry; find<X>() returns absent only when none of these nodes holds one.
C12_LookupChaining ==
    [][ last'.op \in {"find", "get", "get_const"}
        => LET n == last'.node
               X == last'.type
           IN  IF ChainHolders(tree, n, X) # {}
               THEN Returned(last'.res, Slot(NearestInChain(tree, n, X), X))
               ELSE last'.op = "find" => last'.res.kind = "nullptr"
      ]_vars

\* C13: mutable get<X>() creates an entry only in the root, the node that no
\* other node holds, never in a node that is an entry of another node; when a
\* node of the chain holds an X entry it creates nothing and copies nothing.
C13_GetInsertsOnlyAtRoot ==
    [][ last'.op = "get"
        => /\ DOMAIN tree' \ DOMAIN tree \subseteq {Slot(Root, last'.type)}
           /\ \A p \in DOMAIN tree : p \in DOMAIN tree' /\ tree'[p] = tree[p]
           /\ ChainHolders(tree, last'.node, last'.type) # {} => tree' = tree
      ]_vars

\* C14: push<X>() and push_default<X>() on n return an entry whose pop() is n,
\* whether the entry was created or already there; that pop() never fails
\* with NoParent.
C14_PushThenPop ==
    last.op \in {"push", "push_default"}
    => /\ last.res.kind = "ref"
       /\ pop(tree, last.res.node, 1) = {Ref(last.node, "parent")}

\* C15: no call with a type a caller can name ends in the error
\* "Existing child has unexpected type": the entry stored under the key of X
\* in any node is always a type_settings<X>.
C15_TypeMismatchUnreachable ==
    last.res.kind # "TypeMismatch"

\* C16: no call of push, get, find or pop, single or chained, removes an entry
\* from any node; only push_default<X>() on a node that already holds an X
\* entry removes entries, exactly those nested in that X entry at any depth,
\* and the X entry itself stays.
C16_MonotonicEntrySets ==
    [][ LET lost == DOMAIN tree \ DOMAIN tree'
        IN  IF last'.op = "push_default" /\ HoldsEntry(tree, last'.node, last'.type)
            THEN /\ lost = Descendants(tree, Slot(last'.node, last'.type))
                 /\ HoldsEntry(tree', last'.node, last'.type)
            ELSE lost = {}
      ]_vars

\* push_default has reset an entry that its node held, and the other entry of
\* that node is still there.
C16_Witness ==
    /\ last.op = "push_default"
    /\ last.res.kind = "ref"
    /\ last.res.via = "reset"
    /\ Descendants(tree, last.res.node) = {}
    /\ children(tree, last.node) \ {last.res.node} # {}

\* C17: a get that fails with "Type not found", mutable or const, single or
\* chained, with auto-insert enabled or disabled, leaves the tree exactly as
\* it was before the call: no step of a chain has created an entry.
C17_FailedGetLeavesTree ==
    [][ (/\ last'.op \in {"get", "get_const", "get_chain", "get_const_chain"}
         /\ last'.res.kind = "NotFound")
        => tree' = tree
      ]_vars

\* C18: pop(0) returns the node it was called on and does not fail.
C18_PopZeroIdentity ==
    (last.op = "pop" /\ last.arg = 0) => Returned(last.res, last.node)
====
